---- MODULE Spec2Model ----
(***************************************************************************)
(* Model of scripts/DeepAR-BloombergFDIWorkshop.ipynb: the preparation of  *)
(* the hourly price series, the training and test windows built over them, *)
(* and the DeepARPredictor request/response protocol.                      *)
(*                                                                         *)
(* Time is counted in ticks of the series frequency ('1H'): a timestamp is *)
(* an absolute hour number, its hour of day is t % 24, and pandas'         *)
(* "Timestamp + n" on a timestamp of frequency '1H' is t + n.              *)
(* A float is an integer, with two codes for the non-finite values NaN and *)
(* Infinity.                                                               *)
(***************************************************************************)
EXTENDS Integers, Sequences, FiniteSets, TLC

\* ---------------------------------------------------------------- bounds
\* The raw rows are stamped FirstHour .. FirstHour + MaxTime.
MaxTime == 4
\* The raw table holds at most MaxRows rows.
MaxRows == 3
\* prediction_length is drawn from 1 .. MaxHorizon (the notebook sets 7 * 12).
MaxHorizon == 2
\* num_test_windows is drawn from 1 .. MaxWindows (the notebook sets 4).
MaxWindows == 2

\* A returned array holds at most MaxPredLen values.
MaxPredLen == 2
\* A response holds at most MaxSamplePaths sample paths.
MaxSamplePaths == 1
\* The two forecast calls drop the last FirstCut and SecondCut points of the
\* series (the notebook drops 14 * 24 and 7 * 24).
FirstCut == 2
SecondCut == 1

\* ------------------------------------------------------------- constants
\* one tick of the frequency '1H', in hours
Freq == 1
\* num_samples of the forecast calls
NumSamples == 50
ExcludedHour == 20
HoursPerDay == 24
\* the columns of data_norm that become series: range(num_timeseries1 - 1)
NumSeries == 4

\* ---------------------------------------------------------------- floats
NaN == -1
Infinity == -2

IsNaN(x) == x = NaN

\* np.isfinite
IsFinite(x) == x # NaN /\ x # Infinity

\* x <= y on floats that are not NaN
FloatLeq(x, y) == y = Infinity \/ (x # Infinity /\ x <= y)

\* the hours of the raw rows: they start three hours before the excluded hour
FirstHour == ExcludedHour - 3
Hours == FirstHour .. (FirstHour + MaxTime)

\* the prices a raw row may carry
PriceSamples == {0, 1, NaN, Infinity}

VARIABLES
    pc,                 \* the next cell to run
    raised,             \* the exception that stopped the run, "none" if none
    data1,              \* the raw table read from the csv, then filtered
    data_norm,          \* the hourly table of the first pipeline
    timeseries1,        \* its series, leading zeros trimmed
    start_dataset,
    end_training,
    prediction_length,
    num_test_windows,
    training_data,
    test_data,
    data_norm2,         \* the hourly table of the second pipeline
    timeseries2,        \* its series, zeros trimmed at both ends
    call,               \* the arguments of the predict call, <<>> before it
    request,            \* the request it sent, <<>> if none
    response,           \* the response of the endpoint, <<>> if none
    prediction,         \* the DataFrame it returned, <<>> if none
    bucket,             \* the objects of the S3 bucket, by key
    endpoint,           \* what was done with the endpoint so far, in order
    left,               \* the ground truth table, <<>> before it is built
    right,              \* the forecast rows gathered so far, <<>> before the first
    dfp,                \* the merged table, <<>> before the merge
    output              \* the csv put to the output key, <<>> if none

windowVars == <<start_dataset, end_training, prediction_length, num_test_windows,
                training_data, test_data>>
prepVars == <<data1, data_norm, timeseries1>>
prep2Vars == <<data_norm2, timeseries2>>
predictVars == <<call, request, response, prediction>>
reportVars == <<left, right, dfp, output>>

vars == <<pc, raised, prepVars, windowVars, prep2Vars, predictVars, bucket, endpoint,
          reportVars>>

\* ------------------------------------------------------------ sequences
Last(s) == s[Len(s)]

RECURSIVE SumSeq(_)
SumSeq(s) == IF s = <<>> THEN 0 ELSE Head(s) + SumSeq(Tail(s))

\* the values of s in order, for s a sequence of records with a field v
Values(s) == [i \in 1..Len(s) |-> s[i].v]

\* ------------------------------------------------------------ aggregation
NotNaN(vals) == SelectSeq(vals, LAMBDA x : ~IsNaN(x))

RECURSIVE FloatMax(_)
FloatMax(vals) ==
    IF Len(vals) = 1 THEN vals[1]
    ELSE LET m == FloatMax(Tail(vals))
         IN  IF FloatLeq(Head(vals), m) THEN m ELSE Head(vals)

RECURSIVE FloatMin(_)
FloatMin(vals) ==
    IF Len(vals) = 1 THEN vals[1]
    ELSE LET m == FloatMin(Tail(vals))
         IN  IF FloatLeq(Head(vals), m) THEN Head(vals) ELSE m

\* np.max, np.min, 'first', 'last' of a resampled group skip the missing
\* values and give NaN for a group without a value.
AggMax(vals) == IF NotNaN(vals) = <<>> THEN NaN ELSE FloatMax(NotNaN(vals))
AggMin(vals) == IF NotNaN(vals) = <<>> THEN NaN ELSE FloatMin(NotNaN(vals))
AggFirst(vals) == IF NotNaN(vals) = <<>> THEN NaN ELSE Head(NotNaN(vals))
AggLast(vals) == IF NotNaN(vals) = <<>> THEN NaN ELSE Last(NotNaN(vals))
\* np.sum of a group: the sum of its values, 0 for an empty group
AggSum(vals) ==
    IF \E i \in 1..Len(NotNaN(vals)) : NotNaN(vals)[i] = Infinity THEN Infinity
    ELSE SumSeq(NotNaN(vals))

\* data1[data1.index.hour != 20]
HourOfDay(t) == t % HoursPerDay
FilterHour(rows) == SelectSeq(rows, LAMBDA r : HourOfDay(r.t) # ExcludedHour)

Column(rows, name) == [i \in 1..Len(rows) |-> rows[i][name]]

\* data1.resample('1H').agg({...}): one row per hour from the first row's hour
\* to the last row's, the hours without a row included
Bucket(rows, h) == SelectSeq(rows, LAMBDA r : r.t = h)
Resample(rows) ==
    IF rows = <<>> THEN <<>>
    ELSE LET first == rows[1].t
             last == Last(rows).t
         IN  [i \in 1..(last - first + 1) |->
                LET b == Bucket(rows, first + i - 1)
                IN  [t |-> first + i - 1,
                     high |-> AggMax(Column(b, "high")),
                     low |-> AggMin(Column(b, "low")),
                     open |-> AggFirst(Column(b, "open")),
                     close |-> AggLast(Column(b, "close")),
                     volume |-> AggSum(Column(b, "volume"))]]

\* a dropna that drops nothing
KeepNa(frame) == frame

\* DataFrame.dropna(): the rows without a missing value
DropNa(frame) ==
    SelectSeq(frame, LAMBDA r : ~IsNaN(r.high) /\ ~IsNaN(r.low) /\ ~IsNaN(r.open)
                                /\ ~IsNaN(r.close) /\ ~IsNaN(r.volume))

ColumnNames == <<"high", "low", "open", "close", "volume">>

\* data_norm.iloc[:, i] as a series of points (i counted from 1)
ColumnSeries(frame, i) ==
    [j \in 1..Len(frame) |-> [t |-> frame[j].t, v |-> frame[j][ColumnNames[i]]]]

\* ------------------------------------------------------------ np.trim_zeros
\* the number of leading elements the loop "for i in filt: if i != 0.: break"
\* passes: NaN != 0. is true, so a missing value stops the loop
RECURSIVE LeadingZeros(_)
LeadingZeros(vals) ==
    IF vals = <<>> THEN 0
    ELSE IF Head(vals) # 0 THEN 0
    ELSE 1 + LeadingZeros(Tail(vals))

Reverse(s) == [i \in 1..Len(s) |-> s[Len(s) + 1 - i]]

\* the same loop, with trim = 'f' weakened to skip the missing values too
TrimZerosSkippingNaN(filt, trim) ==
    LET RECURSIVE Skip(_)
        Skip(vals) == IF vals = <<>> THEN 0
                      ELSE IF Head(vals) # 0 /\ ~IsNaN(Head(vals)) THEN 0
                      ELSE 1 + Skip(Tail(vals))
        first == IF "f" \in trim THEN Skip(Values(filt)) ELSE 0
        last == IF "b" \in trim THEN Len(filt) - LeadingZeros(Reverse(Values(filt)))
                ELSE Len(filt)
    IN  SubSeq(filt, first + 1, last)

\* np.trim_zeros(filt, trim): filt[first:last]
TrimZeros(filt, trim) ==
    LET first == IF "f" \in trim THEN LeadingZeros(Values(filt)) ELSE 0
        last == IF "b" \in trim THEN Len(filt) - LeadingZeros(Reverse(Values(filt)))
                ELSE Len(filt)
    IN  SubSeq(filt, first + 1, last)

\* ------------------------------------------------------------ pandas slicing
\* Index.searchsorted(label, side='left'): the points stamped before label
SearchLeft(ts, label) == Cardinality({i \in 1..Len(ts) : ts[i].t < label})
\* Index.searchsorted(label, side='right'): the points stamped up to label
SearchRight(ts, label) == Cardinality({i \in 1..Len(ts) : ts[i].t <= label})

\* the slice without the point stamped lo
LabelSliceOpenStart(ts, lo, hi) == SubSeq(ts, SearchRight(ts, lo) + 1, SearchRight(ts, hi))

\* ts[lo:hi] on a sorted DatetimeIndex: both labels are included
LabelSlice(ts, lo, hi) == SubSeq(ts, SearchLeft(ts, lo) + 1, SearchRight(ts, hi))

\* Series.tolist()
ToList(ts) == Values(ts)

\* str(timestamp)
TimestampStr(t) == [iso |-> t]

\* ------------------------------------------------------------ the windows
\* the training slice without the "- 1"
TrainingTargetInclusive(ts, start, end) == ToList(LabelSlice(ts, start, end))

\* ts[start_dataset:end_training - 1].tolist()
TrainingTarget(ts, start, end) == ToList(LabelSlice(ts, start, end - 1))

\* a test slice that slides with k instead of growing
TestTargetSliding(ts, start, end, k, horizon) ==
    ToList(LabelSlice(ts, start + (k - 1) * horizon, end + k * horizon))

\* ts[start_dataset:end_training + k * prediction_length].tolist()
TestTarget(ts, start, end, k, horizon) ==
    ToList(LabelSlice(ts, start, end + k * horizon))

\* for k in range(1, num_test_windows + 1) for ts in timeseries1: window k of
\* series i is entry (k - 1) * len(timeseries1) + i
TestIndex(k, i) == (k - 1) * NumSeries + i

\* ------------------------------------------------------------ Python values
PyNone == [type |-> "NoneType", num |-> 0, str |-> ""]
PyInt(n) == [type |-> "int", num |-> n, str |-> ""]
PyFloat(x) == [type |-> "float", num |-> x, str |-> ""]
PyStr(s) == [type |-> "str", num |-> 0, str |-> s]

\* the tokens of a JSON text
JNumber(x) == [kind |-> "number", num |-> x, str |-> ""]
JString(s) == [kind |-> "string", num |-> 0, str |-> s]
\* a bare literal: null, NaN, Infinity
JLiteral(s) == [kind |-> "literal", num |-> 0, str |-> s]

\* json.dumps of a scalar: a non-finite float is written as a bare NaN or
\* Infinity, a str in quotes, None as null
JsonScalar(v) ==
    CASE v.type = "NoneType" -> JLiteral("null")
      [] v.type = "str" -> JString(v.str)
      [] v.type = "int" -> JNumber(v.num)
      [] v.type = "float" ->
            IF IsFinite(v.num) THEN JNumber(v.num)
            ELSE IF IsNaN(v.num) THEN JLiteral("NaN") ELSE JLiteral("Infinity")

\* ------------------------------------------------------------ the request
\* encode_target testing np.isnan instead of np.isfinite
EncodeTargetIsNan(ts) ==
    [i \in 1..Len(ts) |-> IF ~IsNaN(ts[i].v) THEN PyFloat(ts[i].v) ELSE PyStr("NaN")]

\* [x if np.isfinite(x) else "NaN" for x in ts]
encode_target(ts) ==
    [i \in 1..Len(ts) |-> IF IsFinite(ts[i].v) THEN PyFloat(ts[i].v) ELSE PyStr("NaN")]

\* series_to_dict with "if cat:" for "if cat is not None:"
SeriesToDictTruthy(ts, cat, dynamic_feat) ==
    LET obj == [start |-> TimestampStr(ts[1].t), target |-> encode_target(ts)]
        withCat == IF cat # PyNone /\ cat.num # 0 THEN obj @@ [cat |-> cat] ELSE obj
    IN  IF dynamic_feat # PyNone THEN withCat @@ [dynamic_feat |-> dynamic_feat]
        ELSE withCat

\* series_to_dict(ts, cat=None, dynamic_feat=None)
series_to_dict(ts, cat, dynamic_feat) ==
    LET obj == [start |-> TimestampStr(ts[1].t), target |-> encode_target(ts)]
        withCat == IF cat # PyNone THEN obj @@ [cat |-> cat] ELSE obj
    IN  IF dynamic_feat # PyNone THEN withCat @@ [dynamic_feat |-> dynamic_feat]
        ELSE withCat

\* json.dumps of an instance: its keys are kept, its values written as tokens
JsonInstance(obj) ==
    [key \in DOMAIN obj |->
        CASE key = "start" -> JString(obj.start)
          [] key = "target" -> [i \in 1..Len(obj.target) |-> JsonScalar(obj.target[i])]
          [] OTHER -> JsonScalar(obj[key])]

\* output_types that never asks for the samples
OutputTypesQuantilesOnly(return_samples) == <<"quantiles">>

\* ["quantiles", "samples"] if return_samples else ["quantiles"]
OutputTypes(return_samples) ==
    IF return_samples THEN <<"quantiles", "samples">> ELSE <<"quantiles">>

\* str(q) of a quantile level, a level being counted in tenths: str(0.10) is '0.1'
QuantileStr(q) == <<"0.1", "0.2", "0.3", "0.4", "0.5", "0.6", "0.7", "0.8", "0.9">>[q]

\* __encode_request: json.dumps(http_request_data)
EncodeRequest(ts, cat, dynamic_feat, num_samples, return_samples, quantiles) ==
    LET instance == series_to_dict(ts, cat, dynamic_feat)
    IN  [instances |-> <<JsonInstance(instance)>>,
         configuration |-> [num_samples |-> JNumber(num_samples),
                            output_types |-> OutputTypes(return_samples),
                            quantiles |-> quantiles]]

\* ------------------------------------------------------------ the response
\* the key of sample path i (counted from 0): 'sample_' + str(i)
SampleKey(i) == <<"sample_0", "sample_1", "sample_2">>[i + 1]

\* the order of the column keys as strings
KeyOrder == <<"0.1", "0.2", "0.3", "0.4", "0.5", "0.6", "0.7", "0.8", "0.9",
              "sample_0", "sample_1", "sample_2">>
KeyRank(key) == CHOOSE r \in 1..Len(KeyOrder) : KeyOrder[r] = key

\* the columns in the order of their keys
RECURSIVE SortByKey(_)
SortByKey(cols) ==
    IF cols = <<>> THEN <<>>
    ELSE LET m == CHOOSE i \in 1..Len(cols) :
                     \A j \in 1..Len(cols) : KeyRank(cols[i].key) <= KeyRank(cols[j].key)
         IN  <<cols[m]>> \o SortByKey(SubSeq(cols, 1, m - 1) \o SubSeq(cols, m + 1, Len(cols)))

Repeat(x, n) == [i \in 1..n |-> x]

\* pd.DataFrame(data=dict of lists, index=index): an array of one element is
\* repeated along the index, an array of another length than the index is a
\* ValueError; the keys of a plain dict are sorted by pandas before 0.23 and
\* kept in the order of the dict from 0.23 on
DataFrame(data, index, sort_keys) ==
    LET cols == IF sort_keys THEN SortByKey(data) ELSE data
        fits(c) == Len(cols[c].values) = Len(index) \/ Len(cols[c].values) = 1
    IN  IF \E c \in 1..Len(cols) : ~fits(c)
        THEN [raised |-> "ValueError", frame |-> <<>>]
        ELSE [raised |-> "none",
              frame |-> <<[index |-> index,
                          columns |-> [c \in 1..Len(cols) |->
                              [key |-> cols[c].key,
                               values |-> IF Len(cols[c].values) = Len(index)
                                          THEN cols[c].values
                                          ELSE Repeat(cols[c].values[1], Len(index))]]]>>]

\* pd.DatetimeIndex(start=prediction_time, freq=freq, periods=prediction_length)
DatetimeIndex(start, freq, periods) == [i \in 1..periods |-> start + (i - 1) * freq]

\* __decode_response
DecodeResponse(resp, freq, prediction_time, return_samples, sort_keys) ==
    IF resp.quantiles = <<>> THEN [raised |-> "StopIteration", frame |-> <<>>]
    ELSE LET periods == Len(resp.quantiles[1].values)
             prediction_index == DatetimeIndex(prediction_time, freq, periods)
             dict_of_samples == [i \in 1..Len(resp.samples) |->
                                    [key |-> SampleKey(i - 1), values |-> resp.samples[i]]]
         IN  IF return_samples /\ ~resp.has_samples
             THEN [raised |-> "KeyError", frame |-> <<>>]
             ELSE DataFrame(resp.quantiles \o (IF return_samples THEN dict_of_samples ELSE <<>>),
                            prediction_index, sort_keys)

\* the prediction_time of predict without the "+ 1"
PredictionTimeLast(ts) == Last(ts).t

\* prediction_time = ts.index[-1] + 1
PredictionTime(ts) == Last(ts).t + Freq

\* s[:-n]
DropLast(s, n) == SubSeq(s, 1, Len(s) - n)

\* the orders in which a JSON object of n keys may list them: the order they
\* were asked in, and the opposite one
ResponseOrders(n) == {[j \in 1..n |-> j], [j \in 1..n |-> n + 1 - j]}

\* what the endpoint may answer to a request of configuration cfg: one array
\* per quantile asked for, of any length up to MaxPredLen, the keys in one of
\* the orders of ResponseOrders, and either no samples or, if the samples were
\* asked for, up to MaxSamplePaths sample paths of one length
ServiceResponses(cfg) ==
    {[quantiles |-> [j \in 1..Len(cfg.quantiles) |->
                        [key |-> cfg.quantiles[order[j]],
                         values |-> [i \in 1..lens[order[j]] |-> 10 * order[j] + i]]],
      has_samples |-> smp.present,
      samples |-> [r \in 1..smp.paths |-> [i \in 1..smp.len |-> 100 * r + i]]] :
        lens \in [1..Len(cfg.quantiles) -> 0..MaxPredLen],
        order \in ResponseOrders(Len(cfg.quantiles)),
        smp \in {x \in [present : BOOLEAN, paths : 0..MaxSamplePaths, len : 0..MaxPredLen] :
                    /\ x.present => \E i \in 1..Len(cfg.output_types) :
                                       cfg.output_types[i] = "samples"
                    /\ ~x.present => x.paths = 0
                    /\ x.paths = 0 => x.len = 0}}

\* the categories a caller may pass
Categories == {PyNone, PyInt(0), PyInt(1)}

\* ------------------------------------------------------------ S3
\* a key is the sequence of the pieces of its text: one key starts with
\* another when the pieces of the other are its first pieces
TrainKey == <<"data/train/train.json">>
TestKey == <<"data/test/test.json">>
ObjectKeys == {TrainKey, TrainKey \o <<".bak">>, TestKey, TestKey \o <<".bak">>}

\* the local files written by write_dicts_to_file
LocalFiles == {"train.json", "test.json"}

\* the body of a key without an object, and of an object left by an earlier run
NoObject == "absent"
StaleObject == "stale"

\* the paths a caller may pass: 's3://bucket/key', and a path of another scheme
S3Path(key) == [scheme |-> "s3://", key |-> key]
Paths == {S3Path(k) : k \in ObjectKeys} \cup {[scheme |-> "file://", key |-> TrainKey]}

\* str.startswith
StartsWith(key, prefix) == Len(prefix) <= Len(key) /\ SubSeq(key, 1, Len(prefix)) = prefix

\* buk.objects.filter(Prefix=path): the keys of the objects whose key starts
\* with path
ObjectsFilter(objects, path) ==
    {k \in DOMAIN objects : objects[k] # NoObject /\ StartsWith(k, path)}

\* buk.put_object(Key=path, Body=data)
PutObject(objects, path, body) == [objects EXCEPT ![path] = body]

\* copy_to_s3(local_file, s3_path, override=False) on a bucket holding objects
copy_to_s3(objects, local_file, s3_path, override) ==
    IF s3_path.scheme # "s3://"
    THEN [raised |-> "AssertionError", objects |-> objects]
    ELSE IF Cardinality(ObjectsFilter(objects, s3_path.key)) > 0 /\ ~override
         THEN [raised |-> "none", objects |-> objects]
         ELSE [raised |-> "none", objects |-> PutObject(objects, s3_path.key, local_file)]

\* the bucket of a first run: no object
EmptyBucket == [k \in ObjectKeys |-> NoObject]

\* the buckets a run may find: any of the keys may hold an object already
Buckets == [ObjectKeys -> {NoObject, StaleObject}]

\* ------------------------------------------------------------ the report
\* Series.dropna()
SeriesDropNa(ts) == SelectSeq(ts, LAMBDA p : ~IsNaN(p.v))

\* pd.DataFrame(data=ts); reset_index(inplace=True); columns = ['time', 'Price']
LeftTable(ts) == [i \in 1..Len(ts) |-> [time |-> ts[i].t, Price |-> ts[i].v]]

LeftColumns == <<"time", "Price">>
RightColumns == <<"time", "10thPercentile", "50thPercentile", "90thPercentile">>

NameSet(names) == {names[c] : c \in 1..Len(names)}

\* frame.reset_index(inplace=True); frame.columns = names: the index becomes the
\* first column and the columns are named by their place; a list of names of
\* another length than the columns is a ValueError
Relabel(frame, names) ==
    IF Len(frame.columns) + 1 # Len(names)
    THEN [raised |-> "ValueError", rows |-> <<>>]
    ELSE [raised |-> "none",
          rows |-> [i \in 1..Len(frame.index) |->
                      [n \in NameSet(names) |->
                          LET c == CHOOSE c \in 1..Len(names) : names[c] = n
                          IN  IF c = 1 THEN frame.index[i]
                              ELSE frame.columns[c - 1].values[i]]]]

\* the values of s, each once, at the place of its first occurrence
RECURSIVE Unique(_)
Unique(s) ==
    IF s = <<>> THEN <<>>
    ELSE <<Head(s)>> \o Unique(SelectSeq(Tail(s), LAMBDA x : x # Head(s)))

RECURSIVE Flatten(_)
Flatten(ss) == IF ss = <<>> THEN <<>> ELSE Head(ss) \o Flatten(Tail(ss))

\* pd.merge(l, r, how='left', on=[on, on])
MergeLeftJoin(l, r, lcols, rcols, on) ==
    [i \in 1..Len(l) |->
        [c \in NameSet(lcols) \cup NameSet(rcols) |->
            IF c \in NameSet(lcols) THEN l[i][c]
            ELSE IF \E j \in 1..Len(r) : r[j][on] = l[i][on]
                 THEN r[CHOOSE j \in 1..Len(r) : r[j][on] = l[i][on]][c]
                 ELSE NaN]]

\* pd.merge(l, r, how='outer', on=[on, on]): the keys in the order they occur,
\* those of l first; for a key on both sides every row of l with every row of
\* r, in their order; for a key on one side its rows with NaN in the columns
\* of the other side
Merge(l, r, lcols, rcols, on) ==
    LET keys == Unique([i \in 1..Len(l) |-> l[i][on]] \o [j \in 1..Len(r) |-> r[j][on]])
        Options(rows, k) ==
            LET hit == SelectSeq(rows, LAMBDA row : row[on] = k)
            IN  IF hit = <<>> THEN << <<>> >> ELSE [i \in 1..Len(hit) |-> <<hit[i]>>]
        Join(k, lo, ro) ==
            [c \in NameSet(lcols) \cup NameSet(rcols) |->
                IF c = on THEN k
                ELSE IF c \in NameSet(lcols) THEN (IF lo = <<>> THEN NaN ELSE lo[1][c])
                ELSE (IF ro = <<>> THEN NaN ELSE ro[1][c])]
        Rows(k) ==
            LET lopts == Options(l, k)
                ropts == Options(r, k)
            IN  Flatten([i \in 1..Len(lopts) |->
                            [j \in 1..Len(ropts) |-> Join(k, lopts[i], ropts[j])]])
    IN  Flatten([n \in 1..Len(keys) |-> Rows(keys[n])])

\* dfp.to_csv(csv_buffer, index=False): the header, then a line per row, a
\* cell per column, the cell of a missing value empty
CsvCell(x) == IF IsNaN(x) THEN <<>> ELSE <<x>>
ToCsv(rows, names) ==
    <<names>> \o [i \in 1..Len(rows) |-> [c \in 1..Len(names) |-> CsvCell(rows[i][names[c]])]]

\* the columns of the merged table: those of left, then those of right
MergedColumns == LeftColumns \o Tail(RightColumns)

\* ------------------------------------------------------------ initial states
RawRow(t, p) == [t |-> t, high |-> p, low |-> p, open |-> p, close |-> p, volume |-> 1]

RawRows == {RawRow(t, p) : t \in Hours, p \in PriceSamples}

\* the csv: at most MaxRows rows, in the order of their timestamps
RawTables ==
    UNION {{tab \in [1..n -> RawRows] : \A i \in 1..(n - 1) : tab[i].t < tab[i + 1].t}
           : n \in 0..MaxRows}

\* the window parameters: start_dataset is one of the first two hours, and the
\* last window ends at most one tick after the last hour a row can have
WindowParams ==
    {p \in [start : Hours, end : Hours, horizon : 1..MaxHorizon, windows : 1..MaxWindows] :
        /\ p.start <= FirstHour + 1
        /\ p.end + p.windows * p.horizon <= FirstHour + MaxTime + 1}

InitWith(params) ==
    /\ pc = "prepare1"
    /\ raised = "none"
    /\ data1 \in RawTables
    /\ data_norm = <<>>
    /\ timeseries1 = <<>>
    /\ \E p \in params :
          /\ start_dataset = p.start
          /\ end_training = p.end
          /\ prediction_length = p.horizon
          /\ num_test_windows = p.windows
    /\ training_data = <<>>
    /\ test_data = <<>>
    /\ data_norm2 = <<>>
    /\ timeseries2 = <<>>
    /\ call = <<>>
    /\ request = <<>>
    /\ response = <<>>
    /\ prediction = <<>>
    /\ endpoint = <<>>
    /\ left = <<>>
    /\ right = <<>>
    /\ dfp = <<>>
    /\ output = <<>>

Init == InitWith(WindowParams) /\ bucket = EmptyBucket

\* ------------------------------------------------------------ the cells
\* data1 = data1[data1.index.hour != 20]; data_norm = ...; timeseries1 = ...
\* (pd.to_numeric leaves a numeric column as it is); the cell ends on
\* timeseries1[1].index[-1], an IndexError on an empty series
Prepare1 ==
    /\ pc = "prepare1"
    /\ data1' = FilterHour(data1)
    /\ data_norm' = DropNa(Resample(data1'))
    /\ timeseries1' = [i \in 1..NumSeries |-> TrimZeros(ColumnSeries(data_norm', i), {"f"})]
    /\ IF timeseries1'[2] = <<>>
       THEN pc' = "halted" /\ raised' = "IndexError"
       ELSE pc' = "training_data" /\ raised' = raised
    /\ UNCHANGED <<windowVars, prep2Vars, predictVars, bucket, endpoint, reportVars>>

BuildTrainingData ==
    /\ pc = "training_data"
    /\ training_data' =
          [i \in 1..Len(timeseries1) |->
              [start |-> TimestampStr(start_dataset),
               target |-> TrainingTarget(timeseries1[i], start_dataset, end_training)]]
    /\ pc' = "test_data"
    /\ UNCHANGED <<raised, prepVars, start_dataset, end_training, prediction_length,
                   num_test_windows, test_data, prep2Vars, predictVars, bucket, endpoint,
                   reportVars>>

BuildTestData ==
    /\ pc = "test_data"
    /\ test_data' =
          [n \in 1..(num_test_windows * Len(timeseries1)) |->
              LET k == ((n - 1) \div Len(timeseries1)) + 1
                  i == ((n - 1) % Len(timeseries1)) + 1
              IN  [start |-> TimestampStr(start_dataset),
                   target |-> TestTarget(timeseries1[i], start_dataset, end_training,
                                         k, prediction_length)]]
    /\ pc' = "copy_train"
    /\ UNCHANGED <<raised, prepVars, start_dataset, end_training, prediction_length,
                   num_test_windows, training_data, prep2Vars, predictVars, bucket, endpoint,
                   reportVars>>

\* copy_to_s3(local_file, s3_path, override): the notebook calls it for
\* train.json, then for test.json
CopyToS3(local_file, s3_path, override) ==
    /\ pc \in {"copy_train", "copy_test"}
    /\ LET out == copy_to_s3(bucket, local_file, s3_path, override)
       IN  /\ bucket' = out.objects
           /\ raised' = out.raised
           /\ pc' = IF out.raised # "none" THEN "halted"
                    ELSE IF pc = "copy_train" THEN "copy_test" ELSE "deploy"
    /\ UNCHANGED <<prepVars, windowVars, prep2Vars, predictVars, endpoint, reportVars>>

\* predictor = estimator.deploy(...): the endpoint is created
Deploy ==
    /\ pc = "deploy"
    /\ endpoint' = Append(endpoint, "deploy")
    /\ pc' = "prepare2"
    /\ UNCHANGED <<raised, prepVars, windowVars, prep2Vars, predictVars, bucket, reportVars>>

\* data_norm2 = data1.resample(...).agg(...), without dropna; timeseries2 = ...;
\* the cell ends on timeseries2[1].index[-1]
Prepare2 ==
    /\ pc = "prepare2"
    /\ data_norm2' = Resample(data1)
    /\ timeseries2' = [i \in 1..NumSeries |->
                          TrimZeros(ColumnSeries(data_norm2', i), {"f", "b"})]
    /\ IF timeseries2'[2] = <<>>
       THEN pc' = "halted" /\ raised' = "IndexError"
       ELSE pc' = "left" /\ raised' = raised
    /\ UNCHANGED <<prepVars, windowVars, predictVars, bucket, endpoint, reportVars>>

\* left = pd.DataFrame(data=timeseries2[1].dropna()); left.reset_index(...);
\* left.columns = ['time', 'Price']
BuildLeft ==
    /\ pc = "left"
    /\ left' = <<LeftTable(SeriesDropNa(timeseries2[2]))>>
    /\ pc' = "predict"
    /\ UNCHANGED <<raised, prepVars, windowVars, prep2Vars, predictVars, bucket, endpoint,
                   right, dfp, output>>

\* predictor.predict(ts=tspred[:-cut], cat, num_samples=50, return_samples,
\* quantiles=[0.10, 0.5, 0.90]) up to the request it posts to the endpoint
PredictSend(cut, cat, return_samples) ==
    /\ pc = "predict"
    /\ LET ts == DropLast(timeseries2[2], cut)
       IN  IF ts = <<>>
           THEN /\ raised' = "IndexError"
                /\ pc' = "halted"
                /\ UNCHANGED <<call, request, endpoint>>
           ELSE LET quantiles == [i \in 1..3 |-> QuantileStr(<<1, 5, 9>>[i])]
                IN  /\ call' = <<[ts |-> ts, cat |-> cat, return_samples |-> return_samples,
                                  prediction_time |-> PredictionTime(ts),
                                  quantiles |-> quantiles]>>
                    /\ request' = <<EncodeRequest(ts, cat, PyNone, NumSamples,
                                                  return_samples, quantiles)>>
                    /\ endpoint' = Append(endpoint, "invoke")
                    /\ raised' = raised
                    /\ pc' = "invoking"
    /\ UNCHANGED <<prepVars, windowVars, prep2Vars, response, prediction, bucket, reportVars>>

\* the endpoint answers and predict decodes it and returns: its arguments
\* and its request are gone, the answer is kept as the last one received
PredictReceive(sort_keys) ==
    /\ pc = "invoking"
    /\ \E res \in ServiceResponses(request[1].configuration) :
          LET out == DecodeResponse(res, Freq, call[1].prediction_time,
                                    call[1].return_samples, sort_keys)
          IN  /\ response' = <<res>>
              /\ prediction' = out.frame
              /\ raised' = out.raised
              /\ pc' = IF out.raised = "none" THEN "predicted" ELSE "halted"
    /\ call' = <<>>
    /\ request' = <<>>
    /\ UNCHANGED <<prepVars, windowVars, prep2Vars, bucket, endpoint, reportVars>>

\* right.reset_index(inplace=True); right.columns = [...] on the table predict
\* returned; after the second call the rows are appended to those of the
\* first: right = right.append(right2)
LabelForecast ==
    /\ pc = "predicted"
    /\ LET named == Relabel(prediction[1], RightColumns)
       IN  IF named.raised # "none"
           THEN /\ raised' = named.raised
                /\ pc' = "halted"
                /\ UNCHANGED right
           ELSE /\ raised' = raised
                /\ right' = IF right = <<>> THEN <<named.rows>>
                            ELSE <<right[1] \o named.rows>>
                /\ pc' = IF right = <<>> THEN "predict" ELSE "merge"
    /\ response' = <<>>
    /\ prediction' = <<>>
    /\ UNCHANGED <<prepVars, windowVars, prep2Vars, call, request, bucket, endpoint,
                   left, dfp, output>>

\* dfp = pd.merge(left, right, how='outer', on=['time', 'time'])
MergeReport ==
    /\ pc = "merge"
    /\ dfp' = <<Merge(left[1], right[1], LeftColumns, RightColumns, "time")>>
    /\ pc' = "put"
    /\ UNCHANGED <<raised, prepVars, windowVars, prep2Vars, predictVars, bucket, endpoint,
                   left, right, output>>

\* dfp.to_csv(csv_buffer, index=False); s3_resource.Object(...).put(Body=...):
\* the request to S3 is served or refused
PutReport(served) ==
    /\ pc = "put"
    /\ IF served
       THEN /\ output' = <<ToCsv(dfp[1], MergedColumns)>>
            /\ raised' = raised
            /\ pc' = "delete"
       ELSE /\ output' = output
            /\ raised' = "ClientError"
            /\ pc' = "halted"
    /\ UNCHANGED <<prepVars, windowVars, prep2Vars, predictVars, bucket, endpoint,
                   left, right, dfp>>

\* predictor.delete_endpoint()
DeleteEndpoint ==
    /\ pc = "delete"
    /\ endpoint' = Append(endpoint, "delete")
    /\ pc' = "done"
    /\ UNCHANGED <<raised, prepVars, windowVars, prep2Vars, predictVars, bucket, reportVars>>

\* the cells up to the forecast calls, run in the order of the notebook
Next ==
    \/ Prepare1
    \/ BuildTrainingData
    \/ BuildTestData
    \/ (pc = "copy_train" /\ CopyToS3("train.json", S3Path(TrainKey), TRUE))
    \/ (pc = "copy_test" /\ CopyToS3("test.json", S3Path(TestKey), TRUE))
    \/ Deploy
    \/ Prepare2
    \/ BuildLeft

Spec == Init /\ [][Next]_vars

\* the forecast calls, over one choice of the window parameters
InitPredict ==
    /\ InitWith({[start |-> FirstHour, end |-> FirstHour + 1, horizon |-> 1, windows |-> 1]})
    /\ bucket = EmptyBucket

NextPredict ==
    \/ Next
    \/ \E cut \in {FirstCut, SecondCut}, cat \in Categories, return_samples \in BOOLEAN :
          PredictSend(cut, cat, return_samples)
    \/ \E sort_keys \in BOOLEAN : PredictReceive(sort_keys)

SpecPredict == InitPredict /\ [][NextPredict]_vars

\* copy_to_s3 called with any arguments on any bucket
InitCopy ==
    /\ InitWith({[start |-> FirstHour, end |-> FirstHour + 1, horizon |-> 1, windows |-> 1]})
    /\ Len(data1) = 1
    /\ bucket \in Buckets

NextCopy ==
    \/ Prepare1
    \/ BuildTrainingData
    \/ BuildTestData
    \/ \E local_file \in LocalFiles, s3_path \in Paths, override \in BOOLEAN :
          CopyToS3(local_file, s3_path, override)

SpecCopy == InitCopy /\ [][NextCopy]_vars

\* the whole run: the two forecast calls of the notebook, the merge, the
\* upload of the result and the deletion of the endpoint
InitReport ==
    /\ InitPredict
    /\ \A i \in 1..Len(data1) : data1[i].close \in {1, NaN}

NextReport ==
    \/ Next
    \/ (right = <<>> /\ PredictSend(FirstCut, PyNone, FALSE))
    \/ (right # <<>> /\ PredictSend(SecondCut, PyNone, FALSE))
    \/ \E sort_keys \in BOOLEAN : PredictReceive(sort_keys)
    \/ LabelForecast
    \/ MergeReport
    \/ \E served \in BOOLEAN : PutReport(served)
    \/ DeleteEndpoint

SpecReport == InitReport /\ [][NextReport]_vars

\* a cell that can run does run
FairSpecReport == SpecReport /\ WF_vars(NextReport)

\* ------------------------------------------------------------ the claims
IsPrefix(a, b) == Len(a) <= Len(b) /\ SubSeq(b, 1, Len(a)) = a
IsStrictPrefix(a, b) == IsPrefix(a, b) /\ Len(a) < Len(b)

\* the points of ts stamped from lo up to (and without) hi
PointsBefore(ts, lo, hi) == SelectSeq(ts, LAMBDA p : lo <= p.t /\ p.t < hi)

TrainingBuilt == training_data # <<>>
TestBuilt == test_data # <<>>

TestWindow(k, i) == test_data[TestIndex(k, i)].target
WindowEnd(k) == end_training + k * prediction_length

\* C1: for every series and every k in 1..num_test_windows, test window k holds
\* exactly the points stamped start_dataset <= t < end_training + k * horizon:
\* a point stamped end_training + k * horizon is not in window k.
TestWindowEndExclusive ==
    TestBuilt =>
        \A i \in 1..NumSeries : \A k \in 1..num_test_windows :
            TestWindow(k, i) = Values(PointsBefore(timeseries1[i], start_dataset, WindowEnd(k)))

\* C2: the test windows of one series are num_test_windows windows, and the
\* target of window k is a prefix of the target of window k + 1.
TestWindowsNested ==
    TestBuilt =>
        /\ Len(test_data) = num_test_windows * NumSeries
        /\ \A i \in 1..NumSeries : \A k \in 1..(num_test_windows - 1) :
              IsPrefix(TestWindow(k, i), TestWindow(k + 1, i))

\* a series got two test windows, the second longer than the first
TestWindowsNestedWitness ==
    /\ TestBuilt
    /\ num_test_windows >= 2
    /\ \E i \in 1..NumSeries :
          /\ TestWindow(1, i) # <<>>
          /\ IsStrictPrefix(TestWindow(1, i), TestWindow(2, i))

\* C3: the training window of a series holds exactly the points stamped
\* start_dataset <= t < end_training, and, for start_dataset < end_training, it
\* is a strict prefix of every test window of the series when the series has a
\* point in [end_training, end_training + horizon).
TrainingWindowExact ==
    /\ TrainingBuilt =>
          \A i \in 1..NumSeries :
              training_data[i].target =
                  Values(PointsBefore(timeseries1[i], start_dataset, end_training))
    /\ (TestBuilt /\ start_dataset < end_training) =>
          \A i \in 1..NumSeries :
              PointsBefore(timeseries1[i], end_training, WindowEnd(1)) # <<>> =>
                  \A k \in 1..num_test_windows :
                      IsStrictPrefix(training_data[i].target, TestWindow(k, i))

\* a series has a training window with points, a point stamped end_training
\* itself, and test windows
TrainingWindowExactWitness ==
    /\ TestBuilt
    /\ start_dataset < end_training
    /\ \E i \in 1..NumSeries :
          /\ training_data[i].target # <<>>
          /\ \E j \in 1..Len(timeseries1[i]) : timeseries1[i][j].t = end_training

\* the bounds the window builder is said to refuse
InvalidBounds(ts) ==
    \/ start_dataset >= end_training
    \/ ts # <<>> /\ (start_dataset < ts[1].t \/ end_training > Last(ts).t)

\* C4: building a window with start >= end_training, with start before the
\* first timestamp of the series or with end_training after its last one fails
\* with a RangeError and produces no window.
WindowRangeError ==
    \A i \in 1..Len(timeseries1) :
        InvalidBounds(timeseries1[i]) =>
            /\ training_data = <<>> /\ test_data = <<>>
            /\ pc \notin {"prepare1", "training_data"} => pc = "halted"

\* C4 as amended: with such bounds nothing is raised and the windows are the
\* slices of the series: the training window holds the points stamped
\* start <= t < end_training (none when start >= end_training), and test
\* window k holds every point stamped start <= t < end_training + k * horizon
\* and no point outside start .. end_training + k * horizon.
WindowOutOfRangeSliced ==
    \A i \in 1..Len(timeseries1) :
        InvalidBounds(timeseries1[i]) =>
            /\ pc \in {"test_data", "copy_train", "copy_test", "deploy", "prepare2"} =>
                  raised = "none"
            /\ TrainingBuilt =>
                  /\ training_data[i].target =
                        Values(PointsBefore(timeseries1[i], start_dataset, end_training))
                  /\ start_dataset >= end_training => training_data[i].target = <<>>
            /\ TestBuilt =>
                  \A k \in 1..num_test_windows :
                      /\ IsPrefix(Values(PointsBefore(timeseries1[i], start_dataset, WindowEnd(k))),
                                  TestWindow(k, i))
                      /\ IsPrefix(TestWindow(k, i),
                                  Values(PointsBefore(timeseries1[i], start_dataset,
                                                      WindowEnd(k) + 1)))

\* the windows of a series were built with start_dataset >= end_training, the
\* series having a point stamped start_dataset
WindowOutOfRangeSlicedWitness ==
    /\ TestBuilt
    /\ raised = "none"
    /\ start_dataset >= end_training
    /\ \E i \in 1..NumSeries :
          /\ timeseries1[i] # <<>>
          /\ timeseries1[i][1].t = start_dataset
          /\ training_data[i].target = <<>>

\* the first position of vals that holds something else than the number zero,
\* Len(vals) + 1 if there is none
FirstNonZero(vals) ==
    CHOOSE j \in 1..(Len(vals) + 1) :
        /\ \A m \in 1..(j - 1) : vals[m] = 0
        /\ j <= Len(vals) => vals[j] # 0

\* the first position of vals that holds neither zero nor a missing value
FirstNonZeroNonMissing(vals) ==
    CHOOSE j \in 1..(Len(vals) + 1) :
        /\ \A m \in 1..(j - 1) : vals[m] = 0 \/ IsNaN(vals[m])
        /\ j <= Len(vals) => (vals[j] # 0 /\ ~IsNaN(vals[j]))

Suffix(s, j) == SubSeq(s, j, Len(s))

Prepared1 == pc \notin {"prepare1"}
Prepared2 == timeseries2 # <<>>

\* C5: the leading trim returns the suffix that starts at the first element that
\* is neither zero nor missing: the result starts with a value that is neither,
\* and everything after it is kept.
TrimLeadingSkipsMissing ==
    /\ Prepared1 =>
          \A i \in 1..NumSeries :
              LET S == ColumnSeries(data_norm, i)
              IN  timeseries1[i] = Suffix(S, FirstNonZeroNonMissing(Values(S)))
    /\ Prepared2 =>
          \A i \in 1..NumSeries :
              timeseries2[i] # <<>> =>
                  (timeseries2[i][1].v # 0 /\ ~IsNaN(timeseries2[i][1].v))

\* C5 as amended: the leading trim returns the suffix that starts at the first
\* element that is not zero; a missing value is not zero, so it is kept and may
\* be the first element of the result. In the second pipeline the trailing
\* zeros are cut from that suffix.
TrimLeadingStopsAtNonZero ==
    /\ Prepared1 =>
          \A i \in 1..NumSeries :
              LET S == ColumnSeries(data_norm, i)
              IN  timeseries1[i] = Suffix(S, FirstNonZero(Values(S)))
    /\ Prepared2 =>
          \A i \in 1..NumSeries :
              LET S == ColumnSeries(data_norm2, i)
                  lead == Suffix(S, FirstNonZero(Values(S)))
              IN  /\ IsPrefix(timeseries2[i], lead)
                  /\ \A m \in (Len(timeseries2[i]) + 1)..Len(lead) : lead[m].v = 0
                  /\ timeseries2[i] # <<>> => Last(timeseries2[i]).v # 0

\* leading zeros were cut from a series of the first pipeline that has a zero
\* further on, and from a series of the second one up to a missing value
TrimLeadingStopsAtNonZeroWitness ==
    /\ Prepared2
    /\ Len(timeseries1[2]) < Len(data_norm)
    /\ \E j \in 2..Len(timeseries1[2]) : timeseries1[2][j].v = 0
    /\ Len(timeseries2[2]) < Len(data_norm2)
    /\ IsNaN(timeseries2[2][1].v)

\* ------------------------------------------------------------ the forecast calls
Invoking == pc = "invoking"

\* the instance of the request in flight
Instance == request[1].instances[1]

\* C6: the encoded target has the length and the order of the series: the
\* number itself where the value is finite, the string "NaN" where it is NaN or
\* otherwise not finite, never a number or a bare literal for such a value.
TargetEncodesMissingAsNaN ==
    Invoking =>
        LET ts == call[1].ts
        IN  /\ Len(Instance.target) = Len(ts)
            /\ \A i \in 1..Len(ts) :
                  IF ts[i].v \in {NaN, Infinity}
                  THEN Instance.target[i].kind = "string" /\ Instance.target[i].str = "NaN"
                  ELSE Instance.target[i].kind = "number" /\ Instance.target[i].num = ts[i].v

\* a request is in flight for a series with a number, a NaN and an infinity
TargetEncodesMissingAsNaNWitness ==
    /\ Invoking
    /\ \E i, j, k \in 1..Len(call[1].ts) :
          /\ call[1].ts[i].v = NaN
          /\ call[1].ts[j].v = Infinity
          /\ call[1].ts[k].v \notin {NaN, Infinity}
          /\ Instance.target[i] = Instance.target[j]
          /\ Instance.target[k].kind = "number"

\* C7: the instance has the field cat, holding the integer of the caller,
\* exactly when a category was passed, the category 0 included; without a
\* category the field is not there at all.
CategoryEmittedIffGiven ==
    Invoking =>
        IF call[1].cat.type = "NoneType"
        THEN "cat" \notin DOMAIN Instance
        ELSE /\ "cat" \in DOMAIN Instance
             /\ Instance.cat.kind = "number"
             /\ Instance.cat.num = call[1].cat.num

\* a request is in flight for the category 0, and it has the field
CategoryEmittedIffGivenWitness ==
    /\ Invoking
    /\ call[1].cat = PyInt(0)
    /\ "cat" \in DOMAIN Instance
    /\ Instance.cat.num = 0

\* C8: output_types holds "quantiles", holds "samples" if and only if the
\* caller asked for the samples, and holds nothing else.
OutputTypesDerived ==
    Invoking =>
        LET types == request[1].configuration.output_types
            Holds(x) == \E i \in 1..Len(types) : types[i] = x
        IN  /\ Holds("quantiles")
            /\ Holds("samples") <=> call[1].return_samples
            /\ \A i \in 1..Len(types) : types[i] \in {"quantiles", "samples"}

\* a request asking for the samples is in flight
OutputTypesDerivedWitness ==
    /\ Invoking
    /\ call[1].return_samples
    /\ request[1].configuration.output_types = <<"quantiles", "samples">>

\* a response whose quantile arrays differ in length, or without a sample
\* array although the samples were asked for
MalformedResponse(res, return_samples) ==
    \/ \E a, b \in 1..Len(res.quantiles) :
          Len(res.quantiles[a].values) # Len(res.quantiles[b].values)
    \/ return_samples /\ (~res.has_samples \/ res.samples = <<>>)

\* C9: decoding a response whose quantile arrays differ in length, or one
\* without sample arrays when the samples were asked for, ends in an error and
\* returns no table.
DecodeRefusesMalformed ==
    [][(Invoking /\ MalformedResponse(response'[1], call[1].return_samples)) =>
          (raised' # "none" /\ prediction' = <<>>)]_vars

\* C10: the table a forecast call returns is indexed by as many consecutive
\* ticks as the first returned quantile array has values, the first of them
\* one tick after the last timestamp of the window sent, and every column has a
\* value per timestamp of the index.
DecodedIndexFollowsWindow ==
    [][(Invoking /\ pc' = "predicted") =>
          LET ts == call[1].ts
              frame == prediction'[1]
              n == Len(response'[1].quantiles[1].values)
          IN  /\ Len(frame.index) = n
              /\ \A i \in 1..n : frame.index[i] = Last(ts).t + i
              /\ \A q \in 1..Len(response'[1].quantiles) :
                    \E c \in 1..Len(frame.columns) :
                        frame.columns[c].key = response'[1].quantiles[q].key
              /\ \A c \in 1..Len(frame.columns) : Len(frame.columns[c].values) = n]_vars

\* the first forecast call returned a table of two timestamps, the first one
\* tick after the window it sent
DecodedIndexFollowsWindowWitness ==
    /\ pc = "predicted"
    /\ Len(timeseries2[2]) > FirstCut
    /\ Len(prediction[1].index) >= 2
    /\ prediction[1].index[1] = Last(DropLast(timeseries2[2], FirstCut)).t + 1
    /\ prediction[1].index[2] = prediction[1].index[1] + 1
    /\ \A c \in 1..Len(prediction[1].columns) : Len(prediction[1].columns[c].values) >= 2

\* ------------------------------------------------------------ the report
Merged == dfp # <<>>

\* the columns names of a row
Project(row, names) == [n \in NameSet(names) |-> row[n]]

\* the rows of a table stamped k, in their order
RowsAt(rows, k) == SelectSeq(rows, LAMBDA row : row.time = k)

Times(rows) == {rows[i].time : i \in 1..Len(rows)}

\* C11: the merged table is the full outer join on the timestamp of the ground
\* truth with the forecast rows of all calls in call order: at every timestamp
\* the forecast rows of the merged table are the forecast rows of that
\* timestamp, each once and in call order (the rows of two calls for one
\* timestamp are both kept); every ground truth timestamp is there with its
\* price; a timestamp of one side only has missing values in the columns of the
\* other side; and the table has no other timestamp.
MergedIsOuterJoin ==
    Merged =>
        LET m == dfp[1]
            l == left[1]
            r == right[1]
        IN  /\ \A k \in Times(r) :
                  [i \in 1..Len(RowsAt(m, k)) |-> Project(RowsAt(m, k)[i], RightColumns)]
                      = RowsAt(r, k)
            /\ \A i \in 1..Len(l) :
                  \E j \in 1..Len(m) : Project(m[j], LeftColumns) = l[i]
            /\ \A j \in 1..Len(m) :
                  /\ m[j].time \in Times(l) \cup Times(r)
                  /\ m[j].time \notin Times(r) =>
                        \A c \in NameSet(Tail(RightColumns)) : IsNaN(m[j][c])
                  /\ m[j].time \notin Times(l) => IsNaN(m[j].Price)
                  /\ m[j].time \in Times(l) => ~IsNaN(m[j].Price)

\* the two calls forecast one timestamp both, the ground truth has it too, and
\* the merged table has both rows; another timestamp is forecast only, a third
\* one is in the ground truth only
MergedIsOuterJoinWitness ==
    /\ Merged
    /\ \E k \in Times(left[1]) :
          /\ Len(RowsAt(right[1], k)) = 2
          /\ Len(RowsAt(dfp[1], k)) = 2
    /\ \E k \in Times(right[1]) \ Times(left[1]) : Len(RowsAt(dfp[1], k)) = 1
    /\ \E k \in Times(left[1]) \ Times(right[1]) : Len(RowsAt(dfp[1], k)) = 1

\* ------------------------------------------------------------ the uploads
Copying == pc \in {"copy_train", "copy_test"}

\* C12: on the bucket as a call of copy_to_s3 finds it, for every local file
\* and every destination path: with override false the call uploads the file to
\* the destination key when no object has that key, whatever other keys the
\* bucket holds, and leaves the bucket as it is, returning normally, when an
\* object has it; with override true it uploads the file in both cases.
CopyWritesIffAbsent ==
    Copying =>
        \A local_file \in LocalFiles, key \in ObjectKeys :
            LET kept == copy_to_s3(bucket, local_file, S3Path(key), FALSE)
                forced == copy_to_s3(bucket, local_file, S3Path(key), TRUE)
            IN  /\ kept.raised = "none"
                /\ kept.objects = IF bucket[key] = NoObject
                                  THEN PutObject(bucket, key, local_file)
                                  ELSE bucket
                /\ forced.raised = "none"
                /\ forced.objects = PutObject(bucket, key, local_file)

\* ------------------------------------------------------------ the endpoint
Count(log, what) == Cardinality({i \in 1..Len(log) : log[i] = what})

Deployed == Count(endpoint, "deploy") > 0
Deleted == Count(endpoint, "delete") = 1

\* the endpoint was deployed first, then invoked, then deleted at most once as
\* the last thing
LifecycleOrder ==
    \A i \in 1..Len(endpoint) :
        /\ endpoint[i] = "deploy" <=> i = 1
        /\ endpoint[i] = "delete" => i = Len(endpoint)

\* C13: in every run the endpoint is deployed, then invoked zero or more times,
\* then deleted: nothing is invoked before the deployment or after the
\* deletion, and an endpoint that was deployed is in the end deleted, once,
\* also when a forecast call, the merge or the upload of the result fails.
EndpointLifecycle == [](LifecycleOrder /\ Count(endpoint, "delete") <= 1) /\ [](Deployed => <>Deleted)

\* ------------------------------------------------------------ the buckets
\* the table has a row stamped t
HasRow(rows, t) == \E j \in 1..Len(rows) : rows[j].t = t

\* the rows of the table that are not stamped at the excluded hour
OutsideExcludedHour(rows) == SelectSeq(rows, LAMBDA r : r.t % HoursPerDay # ExcludedHour)

\* every point of every series is stamped like a row of the table
PointsHaveRows(series, rows) ==
    \A i \in 1..Len(series) : \A j \in 1..Len(series[i]) : HasRow(rows, series[i][j].t)

\* the first preparation removes the rows of the excluded hour, and its series
\* have a point only where a remaining row is
FirstPipelineDropsEmptyBuckets ==
    pc = "prepare1" =>
        /\ data1' = OutsideExcludedHour(data1)
        /\ PointsHaveRows(timeseries1', data1')

\* C14: in both preparations the rows of the excluded hour are removed before
\* the aggregation and a bucket that received no row is absent from the
\* prepared series: no series of either has a point, zero or missing, at a
\* bucket without a row.
EmptyBucketsAbsent ==
    [][/\ FirstPipelineDropsEmptyBuckets
       /\ pc = "prepare2" => PointsHaveRows(timeseries2', data1)]_vars

\* C14 as amended: the first preparation removes the rows of the excluded hour
\* and its series have no point at a bucket without a row. The second one
\* aggregates the same filtered rows but keeps the empty buckets: its table has
\* a row for every hour from the first remaining row to the last, and a point of
\* its series at a bucket without a row, the excluded hour included, holds a
\* missing value, never a zero. Only the ground truth column drops them.
EmptyBucketsAbsentOrMissing ==
    [][/\ FirstPipelineDropsEmptyBuckets
       /\ pc = "prepare2" =>
             /\ data1 = OutsideExcludedHour(data1)
             /\ data1 # <<>> =>
                   [j \in 1..Len(data_norm2') |-> data_norm2'[j].t]
                       = [j \in 1..(Last(data1).t - data1[1].t + 1) |-> data1[1].t + j - 1]
             /\ \A i \in 1..Len(timeseries2') : \A j \in 1..Len(timeseries2'[i]) :
                   LET p == timeseries2'[i][j]
                   IN  /\ data1[1].t <= p.t /\ p.t <= Last(data1).t
                       /\ ~HasRow(data1, p.t) => IsNaN(p.v)
       /\ pc = "left" =>
             \A j \in 1..Len(left'[1]) : HasRow(data1, left'[1][j].time)]_vars

\* both preparations ran on rows around the excluded hour: the series of the
\* first has no point at that hour, the series of the second has one, holding a
\* missing value, and the ground truth has none
EmptyBucketsAbsentOrMissingWitness ==
    /\ left # <<>>
    /\ timeseries1[2] # <<>>
    /\ \A j \in 1..Len(timeseries1[2]) : timeseries1[2][j].t % HoursPerDay # ExcludedHour
    /\ \E j \in 1..Len(timeseries2[2]) :
          /\ timeseries2[2][j].t % HoursPerDay = ExcludedHour
          /\ IsNaN(timeseries2[2][j].v)
          /\ ~HasRow(data1, timeseries2[2][j].t)
    /\ \A j \in 1..Len(left[1]) : left[1][j].time % HoursPerDay # ExcludedHour

\* ------------------------------------------------------------ the labels
\* the quantile arrays of the response have one length
SameLengths(res) ==
    \A a, b \in 1..Len(res.quantiles) :
        Len(res.quantiles[a].values) = Len(res.quantiles[b].values)

\* what the response holds for the quantile key at place i
Predicted(res, key, i) ==
    res.quantiles[CHOOSE q \in 1..Len(res.quantiles) : res.quantiles[q].key = key].values[i]

\* C15: in the rows a forecast call adds to the reported table, the column
\* 10thPercentile holds what the service predicted for the quantile 0.1, the
\* column 50thPercentile what it predicted for 0.5 and the column
\* 90thPercentile what it predicted for 0.9, whatever the order of the quantile
\* keys in the response.
LabelsFollowQuantiles ==
    [][(pc = "predicted" /\ pc' \in {"predict", "merge"} /\ SameLengths(response[1])) =>
          LET before == IF right = <<>> THEN 0 ELSE Len(right[1])
              added == SubSeq(right'[1], before + 1, Len(right'[1]))
          IN  /\ Len(added) = Len(response[1].quantiles[1].values)
              /\ \A i \in 1..Len(added) :
                    /\ added[i]["10thPercentile"] = Predicted(response[1], "0.1", i)
                    /\ added[i]["50thPercentile"] = Predicted(response[1], "0.5", i)
                    /\ added[i]["90thPercentile"] = Predicted(response[1], "0.9", i)]_vars

====
